---------------------------- MODULE Spec2Model ----------------------------
(***************************************************************************)
(* CTC decoding of neural_sp (neural_sp/models/seq2seq/decoders/ctc.py):   *)
(* CTC.greedy and CTC.beam_search on one utterance.                        *)
(*                                                                         *)
(* Numbers.  The code works on natural logarithms of probabilities.  The   *)
(* model keeps the probabilities themselves, as integer numerators over a  *)
(* denominator that every value compared with it shares:                   *)
(*     x + y            (log domain)   is   x * y   (a product of masses)  *)
(*     np.logaddexp(x, y)              is   x + y   (a sum of masses)      *)
(*     LOG_1 = 0                       is   1                              *)
(*     LOG_0 = float32 min             is   0                              *)
(* LOG_0 is finite in the code, but it absorbs every log-probability added *)
(* to it and vanishes from every logaddexp with a real mass, which is what *)
(* the mass 0 does.  A row of the table holds the weights of its labels;   *)
(* the probability of a label is its weight over the sum of the row, and   *)
(* every value computed at frame t carries the same product of row sums as *)
(* its denominator, so the order of the numerators is the order of the     *)
(* log scores.  Floating-point rounding is not modelled.                   *)
(***************************************************************************)
EXTENDS Integers, Sequences, FiniteSets, TLC

(* ------------------------------ bounds ------------------------------- *)

\* Longest utterance, in frames (elens[b]).
MaxFrames == 3

\* Every row of a bounded table sums to Denom: weights are probabilities in
\* units of 1/Denom.
Denom == 5

\* Largest beam_width argument tried on every table.
MaxBeam == 2

\* The beam_width of the wide-beam scenario, tried on the scenario tables.
WideBeam == 5

\* Longest utterance decoded with an external model.
MaxFramesLM == 2

\* Largest lm_weight argument.
MaxLmWeight == 2

\* The external model's probabilities are numerators over LmDenom.
LmDenom == 4

\* Largest numerator of a whole-sequence score of the external model.
MaxSeqScore == 2

\* Longest utterance scored by CTCPrefixScore.
MaxFramesPS == 3

\* The weight of the peak label in a row of a table scored by
\* CTCPrefixScore (the other labels have weight 1).
PeakWeight == 2

\* Largest number of next labels (len(cs)) in one call of CTCPrefixScore.
MaxCands == 2

(* ----------------------- the decoder's parameters -------------------- *)

\* vocab: number of nodes in the softmax layer (labels are 0..vocab-1).
vocab == 3

\* Index of <blank> (index 0 is reserved for blank, ctc.py:114).
blank == 0

\* Index of <eos>, shared with <sos>; a label of the vocabulary.
eos == 2

Vocab == 0 .. (vocab - 1)

\* LOG_0 and LOG_1 as masses.
LOG_0 == 0

LOG_1 == 1

None == "None"

\* No sequence returned yet: a sequence that is no label sequence.
NotReturned == << -1 >>


(* ------------------------------ the table ---------------------------- *)

RECURSIVE RowSum(_, _)
\* The sum of the weights of labels 0..c of a row.
RowSum(row, c) == IF c < 0 THEN 0 ELSE row[c] + RowSum(row, c - 1)

\* log_probs[b, t] = F.log_softmax(...): every label has a positive
\* probability and the row sums to one.
Rows == {row \in [Vocab -> 1 .. Denom] : RowSum(row, vocab - 1) = Denom}

\* A row that gives label c the weight hi and every other label weight 1.
Peak(c, hi) == [d \in Vocab |-> IF d = c THEN hi ELSE 1]

\* The 3-frame table with near-certain blank, A, A (A = 1).
NearCertainTable == << Peak(blank, 98), Peak(1, 98), Peak(1, 98) >>

\* The row of the weights b, a1, a2 of blank and the labels 1 and 2.
Row3(b, a1, a2) == [d \in Vocab |-> IF d = blank THEN b ELSE IF d = 1 THEN a1 ELSE a2]

\* A 4-frame table with near-tied labels (7, 7, 8 in its third frame).
AmbiguousTable == << Row3(4, 1, 3), Row3(5, 4, 3), Row3(7, 7, 8), Row3(4, 5, 7) >>

\* The 1-frame table in which blank and the two labels are tied, so that
\* three label sequences leave the time loop with equal mass.
TiedTable == << Row3(1, 1, 1) >>

\* A 2-frame table of unique arg-max labels (2, then 1) on which staying on
\* the first label outweighs extending it.
StayTable == << Row3(1, 1, 4), Row3(1, 3, 2) >>

\* Every table of at most n rows.
TablesUpTo(n) == UNION {[1 .. k -> Rows] : k \in 0 .. n}

\* The tables of the scenarios.
ScenarioTables == {NearCertainTable, AmbiguousTable, StayTable}

\* The calls of beam_search without an external model, as pairs of a table
\* and a beam_width: every table of at most MaxFrames rows and the scenario
\* tables with every beam_width up to MaxBeam, and the scenario tables with
\* the wide beam.
Calls ==
    ((TablesUpTo(MaxFrames) \cup ScenarioTables) \X (0 .. MaxBeam))
        \cup (ScenarioTables \X {WideBeam})

\* The calls of beam_search with the external-model arguments: every table
\* of at most MaxFramesLM rows with every beam_width from 1 to MaxBeam, and
\* the tied table with the wide beam.
CallsLM ==
    (TablesUpTo(MaxFramesLM) \X (1 .. MaxBeam)) \cup ({TiedTable} \X {WideBeam})

(* ------------------------------ CTC.greedy --------------------------- *)

\* log_probs[b, t].argmax(0): the label of the largest weight, the first
\* such label when several are maximal.
ArgMax(row) ==
    CHOOSE c \in Vocab :
        /\ \A d \in Vocab : row[d] <= row[c]
        /\ \A d \in Vocab : row[d] = row[c] => c <= d

\* indices: the arg-max label of every frame.
ArgMaxPath(table) == [t \in 1 .. Len(table) |-> ArgMax(table[t])]

RECURSIVE Collapse(_)
\* [x[0] for x in groupby(indices)]: one label per run of equal labels.
Collapse(indices) ==
    IF Len(indices) <= 1 THEN indices
    ELSE IF indices[1] = indices[2] THEN Collapse(Tail(indices))
         ELSE << indices[1] >> \o Collapse(Tail(indices))

\* filter(lambda x: x != self.blank, collapsed_indices)
RemoveBlank(collapsed_indices) == SelectSeq(collapsed_indices, LAMBDA x : x # blank)

\* Faulty variant of GreedyDecode: the blanks are removed before the repeats are
\* collapsed.
GreedyBlankFirst(table) == Collapse(RemoveBlank(ArgMaxPath(table)))

\* CTC.greedy on one utterance.
GreedyDecode(table) == RemoveBlank(Collapse(ArgMaxPath(table)))

(* ------------------------------- state ------------------------------- *)

VARIABLES
    log_probs,    \* the utterance's table, log_probs[b, 0 .. elens[b]-1]
    beam_width,   \* argument of beam_search
    lm,           \* argument of beam_search: NoLM (None), or the external model
    lm_weight,    \* argument of beam_search
    lm_usage,     \* argument of beam_search: "rescoring" or "shallow_fusion"
    pc,           \* where beam_search is: "loop", "done" or "IndexError"
    t,            \* frames the time loop of beam_search has processed
    beam,         \* the local beam of beam_search
    ctc_beam,     \* history: the beam as the time loop left it
    clm_scores,   \* history: what the external model answered in rescoring
    best_hyp,     \* what beam_search returned for the utterance
    greedy_hyp,   \* what greedy returned for the utterance
    hyp,          \* CTCPrefixScore: the prefix label sequence, <sos> first
    r_prev,       \* CTCPrefixScore: the CTC state of the prefix
    cs,           \* CTCPrefixScore.__call__: the next labels of the call
    log_psi,      \* CTCPrefixScore.__call__: the returned prefix scores
    r,            \* CTCPrefixScore.__call__: the returned CTC states
    psi_loop,     \* history: log_psi as the forward loop left it
    r_loop        \* history: r as the forward loop left it

\* The variables of CTCPrefixScore.
score_vars == << hyp, r_prev, cs, log_psi, r, psi_loop, r_loop >>

vars == << log_probs, beam_width, lm, lm_weight, lm_usage, pc, t, beam,
           ctc_beam, clm_scores, best_hyp, greedy_hyp, score_vars >>

\* The arguments of a call: nothing assigns them.
args == << log_probs, beam_width, lm, lm_weight, lm_usage >>

(* --------------------------- the external model ---------------------- *)

\* F.log_softmax(lm.generate(clmout))[0, 0, c] with the state
\* (clm_hxs, clm_cxs), which beam_search never updates from None: a
\* distribution over the labels, the same at every call.
LMs == {m \in [Vocab -> 1 .. LmDenom] : RowSum(m, vocab - 1) = LmDenom}

\* lm=None: no external model (the distribution that is none).
NoLM == [c \in Vocab |-> 0]

RECURSIVE Pow(_, _)
\* x to the power n: n * log(x) in the log domain.
Pow(x, n) == IF n = 0 THEN 1 ELSE x * Pow(x, n - 1)

\* np.logaddexp(new_p_b, new_p_nb) + clm_score * lm_weight
ScoreOf(p_b, p_nb, clm_score) == (p_b + p_nb) * Pow(clm_score, lm_weight)

(* --------------------------- CTC.beam_search ------------------------- *)

Last(s) == s[Len(s)]

\* The beam before the first frame.  clm_score is LOG_1: the numerator
\* LmDenom of the probability one.
InitialBeam ==
    << [hyp |-> << eos >>, p_b |-> LOG_1, p_nb |-> LOG_0,
        clm_score |-> LmDenom, clm_hxs |-> None, clm_cxs |-> None] >>

\* Faulty variant of TopK: largest=False, the labels by increasing weight.
TopKLeast(row, k) ==
    LET rank(c) == Cardinality({d \in Vocab :
                        row[d] < row[c] \/ (row[d] = row[c] /\ d < c)})
        n == IF k < vocab THEN k ELSE vocab
    IN  [i \in 1 .. n |-> CHOOSE c \in Vocab : rank(c) = i - 1]

\* torch.topk(log_probs[b:b+1, t], k=min(beam_width, vocab), largest=True,
\* sorted=True): the labels by decreasing weight, the lower label first
\* among equal weights.
TopK(row, k) ==
    LET rank(c) == Cardinality({d \in Vocab :
                        row[d] > row[c] \/ (row[d] = row[c] /\ d < c)})
        n == IF k < vocab THEN k ELSE vocab
    IN  [i \in 1 .. n |-> CHOOSE c \in Vocab : rank(c) = i - 1]

\* case 1. hyp is not extended
NotExtended(h, row) ==
    LET new_p_b == (h.p_b * row[blank]) + (h.p_nb * row[blank])
        new_p_nb == IF Len(h.hyp) > 1 THEN h.p_nb * row[Last(h.hyp)] ELSE LOG_0
    IN  [hyp |-> h.hyp,
         score |-> ScoreOf(new_p_b, new_p_nb, h.clm_score),
         p_b |-> new_p_b, p_nb |-> new_p_nb,
         clm_score |-> h.clm_score,
         clm_hxs |-> h.clm_hxs, clm_cxs |-> h.clm_cxs]

\* Whether the external model is asked at every extension.
ShallowFusion == lm_weight > 0 /\ lm # NoLM /\ lm_usage = "shallow_fusion"

\* Faulty variant of ExtendedPnb: a repeated label is extended like any other,
\* through the non-blank mass of its prefix too.
ExtendedPnbAnyPath(h, row, c) == (h.p_b * row[c]) + (h.p_nb * row[c])

\* The CTC masses of hyp extended by c: a repeated label extends only the
\* paths that end in blank.
ExtendedPnb(h, row, c) ==
    IF Len(h.hyp) > 1 /\ c = Last(h.hyp)
    THEN h.p_b * row[c]
    ELSE (h.p_b * row[c]) + (h.p_nb * row[c])

\* Faulty variant of Extended: the answer of the external model is added to
\* the non-blank mass of the entry, not only to its score.
ExtendedFusedMass(h, row, c) ==
    LET new_p_b == LOG_0
        clm_score == IF ShallowFusion THEN lm[c] ELSE h.clm_score
        new_p_nb == IF ShallowFusion
                    THEN ExtendedPnb(h, row, c) * Pow(clm_score, lm_weight)
                    ELSE ExtendedPnb(h, row, c)
    IN  [hyp |-> h.hyp \o << c >>,
         score |-> ScoreOf(new_p_b, ExtendedPnb(h, row, c), clm_score),
         p_b |-> new_p_b, p_nb |-> new_p_nb,
         clm_score |-> clm_score,
         clm_hxs |-> h.clm_hxs, clm_cxs |-> h.clm_cxs]

\* case 2. hyp is extended by the label c
Extended(h, row, c) ==
    LET new_p_b == LOG_0
        new_p_nb == ExtendedPnb(h, row, c)
        clm_score == IF ShallowFusion THEN lm[c] ELSE h.clm_score
    IN  [hyp |-> h.hyp \o << c >>,
         score |-> ScoreOf(new_p_b, new_p_nb, clm_score),
         p_b |-> new_p_b, p_nb |-> new_p_nb,
         clm_score |-> clm_score,
         clm_hxs |-> h.clm_hxs, clm_cxs |-> h.clm_cxs]

\* Faulty variant of Extensions: blank is not skipped.
ExtensionsWithBlank(indices_topk) == indices_topk

\* The labels of indices_topk the inner loop extends by: blank is skipped.
Extensions(indices_topk) == SelectSeq(indices_topk, LAMBDA c : c # blank)

\* What one hypothesis of the beam appends to new_beam.
Branches(h, row, indices_topk) ==
    LET labels == Extensions(indices_topk)
    IN  << NotExtended(h, row) >> \o
            [i \in 1 .. Len(labels) |-> Extended(h, row, labels[i])]

RECURSIVE NewBeam(_, _, _)
\* new_beam after the loop over i_beam: the branches of every hypothesis,
\* in the order of the beam.
NewBeam(bm, row, indices_topk) ==
    IF bm = << >> THEN << >>
    ELSE Branches(bm[1], row, indices_topk) \o NewBeam(Tail(bm), row, indices_topk)

\* Faulty variant of SortedByScore: reverse=True is missing, the lowest score first.
SortedAscending(new_beam) ==
    LET n == Len(new_beam)
        rank(i) == Cardinality({j \in 1 .. n :
                        \/ new_beam[j].score < new_beam[i].score
                        \/ new_beam[j].score = new_beam[i].score /\ j < i})
    IN  [k \in 1 .. n |-> new_beam[CHOOSE i \in 1 .. n : rank(i) = k - 1]]

\* sorted(new_beam, key=lambda x: x['score'], reverse=True): by decreasing
\* score, entries of equal score in the order they have in new_beam.
SortedByScore(new_beam) ==
    LET n == Len(new_beam)
        rank(i) == Cardinality({j \in 1 .. n :
                        \/ new_beam[j].score > new_beam[i].score
                        \/ new_beam[j].score = new_beam[i].score /\ j < i})
    IN  [k \in 1 .. n |-> new_beam[CHOOSE i \in 1 .. n : rank(i) = k - 1]]

\* s[:n] for n >= 0
Slice(s, n) == IF n < Len(s) THEN SubSeq(s, 1, n) ELSE s

\* Faulty variant of Prune: the sorted candidates are not cut to the beam width.
PruneNoCut(new_beam, bw) == SortedByScore(new_beam)

\* Pruning
Prune(new_beam, bw) == Slice(SortedByScore(new_beam), bw)

\* One pass of the time loop: the beam after frame row.
TimeStep(bm, row, bw) == Prune(NewBeam(bm, row, TopK(row, bw)), bw)

\* Whether the surviving hypotheses are rescored after the time loop.
Rescoring == lm_weight > 0 /\ lm # NoLM /\ lm_usage = "rescoring"

\* The label sequences of a beam.
HypsOf(bm) == {bm[i].hyp : i \in 1 .. Len(bm)}

\* Faulty variant of Rescored: the rescored beam is not sorted again.
RescoredUnsorted(bm, clm) ==
    [i \in 1 .. Len(bm) |->
        [hyp |-> bm[i].hyp,
         score |-> (bm[i].p_b + bm[i].p_nb) * Pow(clm[bm[i].hyp], lm_weight)]]

\* Rescoing lattice: every surviving hypothesis gets the score
\* logaddexp(p_b, p_nb) + clm_score * lm_weight, clm_score being what the
\* external model answers for its label sequence, and the beam is sorted.
Rescored(bm, clm) ==
    SortedByScore([i \in 1 .. Len(bm) |->
        [hyp |-> bm[i].hyp,
         score |-> (bm[i].p_b + bm[i].p_nb) * Pow(clm[bm[i].hyp], lm_weight)]])

\* Faulty variant of ReturnedHyp: the leading marker is not stripped.
ReturnedWhole(bm) == bm[1].hyp

\* best_hyp = beam[0]['hyp'][1:]
ReturnedHyp(bm) == Tail(bm[1].hyp)

(* ------------------------------ actions ------------------------------ *)

\* CTC.greedy(eouts, elens) on the utterance; the caller runs it before or
\* after beam_search, not inside it.
Greedy ==
    /\ greedy_hyp = NotReturned
    /\ pc # "loop" \/ t = 0
    /\ greedy_hyp' = GreedyDecode(log_probs)
    /\ UNCHANGED << args, pc, t, beam, ctc_beam, clm_scores, best_hyp, score_vars >>

\* One frame of the time loop of beam_search (for t in range(elens[b])).
Step ==
    /\ pc = "loop"
    /\ t < Len(log_probs)
    /\ beam' = TimeStep(beam, log_probs[t + 1], beam_width)
    /\ t' = t + 1
    /\ UNCHANGED << args, pc, ctc_beam, clm_scores, best_hyp, greedy_hyp, score_vars >>

\* After the time loop: the rescoring, when it is asked for, and
\* best_hyp = beam[0]['hyp'][1:], which raises IndexError on an empty beam.
\* The external model is opaque: it answers any score for a label sequence,
\* the same score for the same sequence.
Finish ==
    /\ pc = "loop"
    /\ t = Len(log_probs)
    /\ \E clm \in (IF Rescoring THEN [HypsOf(beam) -> 1 .. MaxSeqScore] ELSE {<< >>}) :
          LET final == IF Rescoring THEN Rescored(beam, clm) ELSE beam
          IN  /\ clm_scores' = clm
              /\ ctc_beam' = beam
              /\ beam' = final
              /\ IF final = << >>
                 THEN pc' = "IndexError" /\ best_hyp' = best_hyp
                 ELSE pc' = "done" /\ best_hyp' = ReturnedHyp(final)
    /\ UNCHANGED << args, t, greedy_hyp, score_vars >>

Next == Greedy \/ Step \/ Finish

\* No call of CTCPrefixScore is made or pending: beam_search does not use
\* it.
NoScoring ==
    /\ hyp = << >>
    /\ r_prev = << >>
    /\ cs = << >>
    /\ log_psi = << >>
    /\ r = << >>
    /\ psi_loop = << >>
    /\ r_loop = << >>

\* The state at the call of beam_search, before the first frame.
Entry ==
    /\ NoScoring
    /\ pc = "loop"
    /\ t = 0
    /\ beam = InitialBeam
    /\ ctc_beam = << >>
    /\ clm_scores = << >>
    /\ best_hyp = NotReturned
    /\ greedy_hyp = NotReturned

\* beam_search(eouts, elens, beam_width) with the defaults lm=None,
\* lm_weight=0, lm_usage='rescoring'.
Init ==
    /\ \E call \in Calls : log_probs = call[1] /\ beam_width = call[2]
    /\ lm = NoLM
    /\ lm_weight = 0
    /\ lm_usage = "rescoring"
    /\ Entry

Spec == Init /\ [][Next]_vars

\* The external models passed with an lm_usage.  The per-label distribution
\* of the model is read in shallow fusion only: in rescoring one model
\* stands for all of them, its whole-sequence scores being drawn in Finish.
ModelsFor(usage) ==
    IF usage = "shallow_fusion" THEN LMs ELSE {CHOOSE m \in LMs : TRUE}

\* beam_search(eouts, elens, beam_width, lm, lm_weight, length_penalty,
\* lm_usage): every combination of the external-model arguments, lm=None
\* included.  length_penalty is read nowhere in beam_search.
InitLM ==
    /\ \E call \in CallsLM : log_probs = call[1] /\ beam_width = call[2]
    /\ lm_usage \in {"rescoring", "shallow_fusion"}
    /\ lm \in {NoLM} \cup ModelsFor(lm_usage)
    /\ lm_weight \in 0 .. MaxLmWeight
    /\ Entry

\* beam_search alone: greedy takes no external model.
NextLM == Step \/ Finish

SpecLM == InitLM /\ [][NextLM]_vars

(* ----------------------------- CTCPrefixScore ------------------------ *)

(***************************************************************************)
(* CTCPrefixScore(log_probs, blank, eos) on one utterance.  Frames are     *)
(* numbered from 1 here: r[n] is the code's r[n - 1].  A CTC state is a    *)
(* sequence of records, one a frame: nb is the code's column 0 (paths      *)
(* ending in the last label) and b its column 1 (paths ending in blank).   *)
(* r[n] is a numerator over the product of the row sums of the frames      *)
(* 1..n; log_psi adds values of several frames, so each is first brought   *)
(* over the product of all row sums (FramesAfter).                         *)
(***************************************************************************)

\* self.logzero, as a mass.
logzero == 0

\* self.xlen
xlen == Len(log_probs)

\* The rows of the scored tables: one label has the weight PeakWeight.
ScoreRows == {Peak(c, PeakWeight) : c \in Vocab}

\* The scored tables.  initial_state and __call__ index row 0: a table has
\* at least one frame.
ScoreTables == UNION {[1 .. k -> ScoreRows] : k \in 1 .. MaxFramesPS}

\* cs: an array of next labels, all different.
CandidateLists ==
    {c \in UNION {[1 .. k -> Vocab] : k \in 1 .. MaxCands} :
        \A i, j \in 1 .. Len(c) : i # j => c[i] # c[j]}

\* What a cell of np.ndarray((xlen, 2, len(cs))) holds before anything is
\* assigned to it: whatever the memory held.
Garbage == {0, 1}

RECURSIVE BlankRun(_)
\* r[i, 1] of initial_state: the blank log-probabilities of the frames up to
\* n, added up.
BlankRun(n) == IF n = 0 THEN 1 ELSE BlankRun(n - 1) * log_probs[n][blank]

\* initial_state(): all the mass on the blank path at every frame.
InitialState == [n \in 1 .. xlen |-> [nb |-> logzero, b |-> BlankRun(n)]]

\* ylen = len(hyp) - 1  (ignore sos)
Ylen == Len(hyp) - 1

\* start = max(ylen, 1): as a frame number from 1, the row assigned before
\* the forward loop; the loop runs over the frames after it.
Start == IF Ylen > 1 THEN Ylen ELSE 1

\* r_sum = np.logaddexp(r_prev[:, 0], r_prev[:, 1])
RSum(n) == r_prev[n].nb + r_prev[n].b

\* Faulty variant of LogPhi: r_sum for every next label, the repeated one too.
LogPhiSum(cands, i, n) == RSum(n)

\* log_phi[n, i]: r_prev[:, 1] for the next label that repeats the last
\* label of a non-empty prefix, r_sum for every other.
LogPhi(cands, i, n) ==
    IF Ylen > 0 /\ \E k \in 1 .. Len(cands) : cands[k] = Last(hyp)
    THEN IF cands[i] # Last(hyp) THEN RSum(n) ELSE r_prev[n].b
    ELSE RSum(n)

RECURSIVE ForwardRow(_, _, _, _)
\* r[n, :, i] when the forward loop is over.  The rows before row Start are
\* never assigned.
ForwardRow(cands, i, n, garbage) ==
    IF n < Start THEN [nb |-> garbage, b |-> garbage]
    ELSE IF n = Start
         THEN IF Ylen = 0
              THEN [nb |-> log_probs[1][cands[i]], b |-> logzero]
              ELSE [nb |-> logzero, b |-> logzero]
         ELSE LET prev == ForwardRow(cands, i, n - 1, garbage)
              IN  [nb |-> (prev.nb + LogPhi(cands, i, n - 1)) * log_probs[n][cands[i]],
                   b |-> (prev.nb + prev.b) * log_probs[n][blank]]

RECURSIVE FramesAfter(_)
\* The product of the row sums of the frames after frame n.
FramesAfter(n) ==
    IF n >= xlen THEN 1
    ELSE RowSum(log_probs[n + 1], vocab - 1) * FramesAfter(n + 1)

RECURSIVE LogPsi(_, _, _)
\* log_psi[i] when the forward loop has done frame n: r[start - 1, 0] and
\* the log_phi[t - 1] + xs[t] of the frames of the loop.
LogPsi(cands, i, n) ==
    IF n <= Start THEN ForwardRow(cands, i, Start, logzero).nb * FramesAfter(Start)
    ELSE LogPsi(cands, i, n - 1)
            + LogPhi(cands, i, n - 1) * log_probs[n][cands[i]] * FramesAfter(n)

\* __call__(hyp, cs, r_prev).  log_psi = r[start - 1, 0] is a view of r
\* until the loop rebinds it; when the loop runs no frame (start = xlen),
\* log_psi[eos_pos] = r_sum[-1] assigns r[start - 1, 0, eos_pos] as well.
Call ==
    /\ pc = "score"
    /\ \E cands \in CandidateLists :
       \E garbage \in (IF Ylen >= 2 THEN Garbage ELSE {logzero}) :
          LET loop_r == [i \in 1 .. Len(cands) |->
                            [n \in 1 .. xlen |-> ForwardRow(cands, i, n, garbage)]]
              loop_psi == [i \in 1 .. Len(cands) |-> LogPsi(cands, i, xlen)]
              is_view == Start = xlen
          IN  /\ cs' = cands
              /\ r_loop' = loop_r
              /\ psi_loop' = loop_psi
              /\ log_psi' = [i \in 1 .. Len(cands) |->
                                IF cands[i] = eos THEN RSum(xlen) ELSE loop_psi[i]]
              /\ r' = [i \in 1 .. Len(cands) |->
                          IF is_view /\ cands[i] = eos
                          THEN [loop_r[i] EXCEPT ![Start].nb = RSum(xlen)]
                          ELSE loop_r[i]]
    /\ pc' = "scored"
    /\ UNCHANGED << args, t, beam, ctc_beam, clm_scores, best_hyp, greedy_hyp,
                    hyp, r_prev >>

\* The caller extends the prefix by one of the scored labels and keeps the
\* state returned for it, while the prefix is shorter than the utterance.
Select ==
    /\ pc = "scored"
    /\ Ylen < xlen
    /\ \E i \in 1 .. Len(cs) :
          /\ hyp' = hyp \o << cs[i] >>
          /\ r_prev' = r[i]
    /\ cs' = << >>
    /\ log_psi' = << >>
    /\ r' = << >>
    /\ psi_loop' = << >>
    /\ r_loop' = << >>
    /\ pc' = "score"
    /\ UNCHANGED << args, t, beam, ctc_beam, clm_scores, best_hyp, greedy_hyp >>

\* CTCPrefixScore(log_probs, blank, eos) constructed for a table, with the
\* prefix <sos> and its initial_state(); no decoder of CTC is running.
InitPS ==
    /\ log_probs \in ScoreTables
    /\ beam_width = 1
    /\ lm = NoLM
    /\ lm_weight = 0
    /\ lm_usage = "rescoring"
    /\ pc = "score"
    /\ t = 0
    /\ beam = << >>
    /\ ctc_beam = << >>
    /\ clm_scores = << >>
    /\ best_hyp = NotReturned
    /\ greedy_hyp = NotReturned
    /\ hyp = << eos >>
    /\ r_prev = InitialState
    /\ cs = << >>
    /\ log_psi = << >>
    /\ r = << >>
    /\ psi_loop = << >>
    /\ r_loop = << >>

NextPS == Call \/ Select

SpecPS == InitPS /\ [][NextPS]_vars

(* ------------------------- whole runs, for comparison ---------------- *)

RECURSIVE BeamAfter(_, _, _)
\* The beam after the first n frames of a table, by beam_search with the
\* beam width bw.
BeamAfter(table, n, bw) ==
    IF n = 0 THEN InitialBeam
    ELSE TimeStep(BeamAfter(table, n - 1, bw), table[n], bw)

\* log(p_b + p_nb) of a hypothesis: its total CTC mass.
Mass(h) == h.p_b + h.p_nb

(* ------------------------------ properties --------------------------- *)

\* The labels of a sequence.
Range(s) == {s[i] : i \in 1 .. Len(s)}

\* Every frame of the table has a strictly dominant (unique arg-max) label.
StrictlyDominant(table) ==
    \A n \in 1 .. Len(table) :
        \E c \in Vocab : \A d \in Vocab \ {c} : table[n][d] < table[n][c]

\* Two immediately adjacent labels of the sequence are equal.
HasAdjacentEqual(s) == \E i \in 1 .. Len(s) - 1 : s[i] = s[i + 1]

\* The path holds a non-blank label twice with blank frames, and at least
\* one, between the two.
BlankSeparatedRepeat(path) ==
    \E i, j \in 1 .. Len(path) :
        /\ i + 1 < j
        /\ path[i] # blank
        /\ path[i] = path[j]
        /\ \A k \in (i + 1) .. (j - 1) : path[k] = blank

RECURSIVE IsSubseq(_, _)
\* s is u with some of its elements left out.
IsSubseq(s, u) ==
    IF s = << >> THEN TRUE
    ELSE IF u = << >> THEN FALSE
    ELSE IF s[1] = u[1] THEN IsSubseq(Tail(s), Tail(u))
    ELSE IsSubseq(s, Tail(u))

\* C1: at the end of every time step no two hypotheses of the beam have the
\* same label sequence (candidates that reach one label sequence through
\* different blank/non-blank paths are combined into one hypothesis).
C1_NoDuplicateHyps ==
    \A i, j \in 1 .. Len(beam) : i < j => beam[i].hyp # beam[j].hyp

\* C2: for every beam_width >= 1 the beam holds at most beam_width
\* hypotheses at every time-step boundary, initially and after the pruning
\* of each frame.
C2_BeamWithinWidth == beam_width >= 1 => Len(beam) <= beam_width

\* C2's case: the second frame's candidates, more than two of them, were
\* pruned to a full beam of width two.
C2_Witness == pc = "loop" /\ t = 2 /\ beam_width = 2 /\ Len(beam) = 2

\* C3 as claimed: on a table whose frames each have a strictly dominant
\* label, the sequence greedy returns holds no blank and no two adjacent
\* equal labels.
C3_NoBlankNoRepeat ==
    (greedy_hyp # NotReturned /\ StrictlyDominant(log_probs)) =>
        /\ blank \notin Range(greedy_hyp)
        /\ ~HasAdjacentEqual(greedy_hyp)

\* C3 as amended: on such a table the sequence greedy returns holds no
\* blank, and it holds two adjacent equal labels exactly when the arg-max
\* path holds that label in two frames separated by blank frames only.
C3_NoBlankRepeatOnlyAcrossBlank ==
    (greedy_hyp # NotReturned /\ StrictlyDominant(log_probs)) =>
        /\ blank \notin Range(greedy_hyp)
        /\ HasAdjacentEqual(greedy_hyp) <=> BlankSeparatedRepeat(ArgMaxPath(log_probs))

\* C3's case: greedy returned a repeated label for a strictly dominant table.
C3_Witness ==
    /\ greedy_hyp # NotReturned
    /\ StrictlyDominant(log_probs)
    /\ HasAdjacentEqual(greedy_hyp)

\* No frame of the table has <eos> among its top-k labels.
EosNeverCandidate ==
    \A n \in 1 .. Len(log_probs) : eos \notin Range(TopK(log_probs[n], beam_width))

\* C4 as claimed: the label sequence beam_search returns never holds the
\* EOS/SOS marker index.
C4_NoMarkerReturned == pc = "done" => eos \notin Range(best_hyp)

\* C4 as amended: beam_search returns the top hypothesis without its first
\* element, the marker; the index of <eos> is in the result only when a
\* frame has it among its top-k labels, where it is appended as a label.
C4_LeadingMarkerStripped ==
    pc = "done" =>
        /\ << eos >> \o best_hyp = beam[1].hyp
        /\ EosNeverCandidate => eos \notin Range(best_hyp)

\* C4's case: a non-empty sequence was returned for a table that never has
\* <eos> among the top-k labels.
C4_Witness == pc = "done" /\ best_hyp # << >> /\ EosNeverCandidate

\* C5: beam_search called with lm=None while a fusion mode is asked for
\* (lm_usage 'shallow_fusion' or 'rescoring', lm_weight > 0) ends in a
\* configuration error before any frame is decoded: no frame is processed
\* and no hypothesis is returned.
C5_FailsFastWithoutScorer ==
    (lm = NoLM /\ lm_weight > 0 /\ lm_usage \in {"shallow_fusion", "rescoring"}) =>
        (t = 0 /\ pc = "loop" /\ best_hyp = NotReturned)

\* C6: beam_search called with beam_width < 1 is rejected before decoding
\* starts: no frame is processed, no beam is built or pruned and no
\* hypothesis is returned, for every table, the zero-frame table included.
C6_RejectsBeamWidthBelowOne ==
    beam_width < 1 => (t = 0 /\ pc = "loop" /\ beam = InitialBeam /\ best_hyp = NotReturned)

\* The label c holds at least two thirds of the row's mass (98% in
\* NearCertainTable).
NearCertain(row, c) == row[c] >= 2 * (RowSum(row, vocab - 1) - row[c])

\* The table has three frames, near-certain blank, a, a in that order.
NearCertainBlankAA(table, a) ==
    /\ Len(table) = 3
    /\ NearCertain(table[1], blank)
    /\ NearCertain(table[2], a)
    /\ NearCertain(table[3], a)

\* C7: on a 3-frame, 3-label table whose frames are near-certain blank, A,
\* A, greedy and beam_search with beam_width=1 and no language model both
\* return exactly [A], never [A, A].
C7_NearCertainScenario ==
    \A a \in Vocab \ {blank} :
        NearCertainBlankAA(log_probs, a) =>
            /\ greedy_hyp # NotReturned => greedy_hyp = << a >>
            /\ (pc = "done" /\ beam_width = 1 /\ lm = NoLM) => best_hyp = << a >>

\* C7's case: both decoders have returned for the near-certain table.
C7_Witness ==
    /\ log_probs = NearCertainTable
    /\ beam_width = 1
    /\ lm = NoLM
    /\ pc = "done"
    /\ greedy_hyp = << 1 >>
    /\ best_hyp = << 1 >>

NearTied(row) ==
    \E c, d \in Vocab : row[c] < row[d] /\ 8 * row[c] >= 7 * row[d]

\* C9: for a table in which two labels are near-tied at one frame, and with
\* no language model, the hypothesis beam_search returns with beam_width=5
\* (WideBeam)
\* has a total log-probability (log of p_b + p_nb at the last frame) greater
\* than or equal to that of the hypothesis returned with beam_width=1.
C9_WiderBeamNoWorse ==
    (/\ pc = "done"
     /\ beam_width = WideBeam
     /\ lm = NoLM
     /\ \E n \in 1 .. Len(log_probs) : NearTied(log_probs[n])) =>
        Mass(ctc_beam[1]) >= Mass(BeamAfter(log_probs, Len(log_probs), 1)[1])

\* The i-th survivor of the time loop is a sequence X as in C10: another
\* label sequence than the pure-CTC top candidate Y = ctc_beam[1], of equal
\* CTC mass, with the strictly higher external score.
PreferredOverTop(i) ==
    /\ ctc_beam[i].hyp # ctc_beam[1].hyp
    /\ Mass(ctc_beam[i]) = Mass(ctc_beam[1])
    /\ clm_scores[ctc_beam[i].hyp] > clm_scores[ctc_beam[1].hyp]

\* The external score of the i-th survivor is strictly higher than that of
\* every other surviving label sequence.
PreferredOverAll(i) ==
    \A j \in 1 .. Len(ctc_beam) :
        ctc_beam[j].hyp # ctc_beam[i].hyp =>
            clm_scores[ctc_beam[j].hyp] < clm_scores[ctc_beam[i].hyp]

\* C10 as claimed: with lm_usage='rescoring', if two surviving label
\* sequences X and Y have equal CTC mass, Y is the pure-CTC top candidate
\* and the external scorer gives X the strictly higher score, beam_search
\* returns X (at every lm_weight > 0, the largest included).
C10_RescoringReturnsPreferred ==
    (pc = "done" /\ Rescoring) =>
        \A i \in 1 .. Len(ctc_beam) :
            PreferredOverTop(i) => best_hyp = Tail(ctc_beam[i].hyp)

\* C10 as amended: ... and the external scorer gives X a strictly higher
\* score than every other surviving label sequence, then beam_search
\* returns X at every lm_weight > 0.
C10_RescoringReturnsMostPreferred ==
    (pc = "done" /\ Rescoring) =>
        \A i \in 1 .. Len(ctc_beam) :
            (PreferredOverTop(i) /\ PreferredOverAll(i)) =>
                best_hyp = Tail(ctc_beam[i].hyp)

\* C10's case: the rescoring replaced the pure-CTC top candidate by a
\* sequence of equal mass that the external scorer prefers to every other.
C10_Witness ==
    /\ pc = "done"
    /\ Rescoring
    /\ \E i \in 1 .. Len(ctc_beam) : PreferredOverTop(i) /\ PreferredOverAll(i)
    /\ best_hyp # Tail(ctc_beam[1].hyp)

\* The not-extended entry C12 describes for the hypothesis h in a frame of
\* the given row: e is h's label sequence with p_b' = (p_b + p_nb) * blank
\* and p_nb' = p_nb * (last label), or no non-blank mass when h holds only
\* the marker.
IsNotExtendedOf(e, h, row) ==
    /\ e.hyp = h.hyp
    /\ e.p_b = (h.p_b + h.p_nb) * row[blank]
    /\ e.p_nb = IF Len(h.hyp) > 1 THEN h.p_nb * row[h.hyp[Len(h.hyp)]] ELSE 0

\* The extended entry C12 describes for h and the candidate label c: no
\* blank mass, and p_nb' = p_b * c when c repeats the last label of the
\* prefix, (p_b + p_nb) * c otherwise.
IsExtendedOf(e, h, c, row) ==
    /\ e.hyp = h.hyp \o << c >>
    /\ e.p_b = 0
    /\ e.p_nb = IF Len(h.hyp) > 1 /\ h.hyp[Len(h.hyp)] = c
                THEN h.p_b * row[c]
                ELSE (h.p_b + h.p_nb) * row[c]

\* The candidate labels of a frame: its top-k labels without the blank.
Candidates(row) == Range(TopK(row, beam_width)) \ {blank}

\* C12: in one frame every entry of the pruned beam is the not-extended
\* entry of a hypothesis of the previous beam (p_b' = logsumexp(p_b, p_nb) +
\* lp(blank), p_nb' = p_nb + lp(last label) or log-zero for the marker
\* alone) or its extended entry for a candidate label c, a top-k label
\* other than the blank, which extends nothing (p_b' = log-zero,
\* p_nb' = p_b + lp(c) when c is the prefix's last label, logsumexp(p_b,
\* p_nb) + lp(c) otherwise); and when the beam is wide enough to prune
\* nothing, every hypothesis yields all of these entries.
C12_FrameRecurrences ==
    [][(pc = "loop" /\ t' = t + 1) =>
        LET row == log_probs[t + 1]
        IN  /\ \A j \in 1 .. Len(beam') :
                \E i \in 1 .. Len(beam) :
                    \/ IsNotExtendedOf(beam'[j], beam[i], row)
                    \/ \E c \in Candidates(row) :
                           IsExtendedOf(beam'[j], beam[i], c, row)
            /\ Len(beam) * (1 + Cardinality(Candidates(row))) <= beam_width =>
                \A i \in 1 .. Len(beam) :
                    /\ \E j \in 1 .. Len(beam') :
                           IsNotExtendedOf(beam'[j], beam[i], row)
                    /\ \A c \in Candidates(row) :
                           \E j \in 1 .. Len(beam') :
                               IsExtendedOf(beam'[j], beam[i], c, row)]_vars

\* C12's case: the beam holds a sequence that ends in a repeated label,
\* appended through the blank mass of its prefix.
C12_Witness ==
    /\ pc = "loop"
    /\ \E i \in 1 .. Len(beam) :
           LET h == beam[i].hyp
           IN  /\ Len(h) >= 3
               /\ h[Len(h)] = h[Len(h) - 1]
               /\ beam[i].p_nb > 0

\* s is before u, or is u, in the lexicographic order of label sequences
\* of one length.
LexLeq(s, u) ==
    \/ s = u
    \/ \E k \in 1 .. Len(s) :
           /\ s[k] < u[k]
           /\ \A m \in 1 .. (k - 1) : s[m] = u[m]

\* C14: after the pruning of a frame, of two beam entries with equal
\* ranking score the one with the longer label sequence comes first, and of
\* two of equal length the lexicographically lower one, whatever the order
\* in which the candidates were generated.
C14_TiesLongerThenLexFirst ==
    (pc = "loop" /\ t > 0) =>
        \A i, j \in 1 .. Len(beam) :
            (i < j /\ beam[i].score = beam[j].score) =>
                \/ Len(beam[i].hyp) > Len(beam[j].hyp)
                \/ /\ Len(beam[i].hyp) = Len(beam[j].hyp)
                   /\ LexLeq(beam[i].hyp, beam[j].hyp)

RECURSIVE PureCTC(_)
\* The triples (label sequence, p_b, p_nb) the CTC recurrences of C12
\* produce in n frames of the table without an external model, every
\* non-blank label a candidate and nothing pruned.
PureCTC(n) ==
    IF n = 0 THEN {<< << eos >>, 1, 0 >>}
    ELSE LET row == log_probs[n]
             last(x) == x[1][Len(x[1])]
         IN  {<< x[1], (x[2] + x[3]) * row[blank],
                 IF Len(x[1]) > 1 THEN x[3] * row[last(x)] ELSE 0 >> :
                     x \in PureCTC(n - 1)}
             \cup
             {<< y[1][1] \o << y[2] >>, 0,
                 IF Len(y[1][1]) > 1 /\ last(y[1]) = y[2]
                 THEN y[1][2] * row[y[2]]
                 ELSE (y[1][2] + y[1][3]) * row[y[2]] >> :
                     y \in PureCTC(n - 1) \X (Vocab \ {blank})}

\* C15: with lm_usage='shallow_fusion' the p_b and p_nb of every beam
\* entry at every frame are values the pure-CTC recurrences produce for its
\* label sequence without a language model: the external score enters the
\* ranking score only.
C15_FusionLeavesMassesPure ==
    ShallowFusion =>
        \A i \in 1 .. Len(beam) :
            << beam[i].hyp, beam[i].p_b, beam[i].p_nb >> \in PureCTC(t)

\* C15's case: shallow fusion gave an extended entry of the second frame a
\* ranking score that is not its CTC mass.
C15_Witness ==
    /\ ShallowFusion
    /\ t = 2
    /\ \E i \in 1 .. Len(beam) :
           /\ Len(beam[i].hyp) > 1
           /\ beam[i].score # beam[i].p_b + beam[i].p_nb

\* C16: after t frames every hypothesis of the beam is the EOS/SOS marker
\* followed by at most t labels, none of them the blank.
C16_MarkerThenNonBlankLabels ==
    \A i \in 1 .. Len(beam) :
        LET h == beam[i].hyp
        IN  /\ Len(h) >= 1
            /\ h[1] = eos
            /\ Len(h) - 1 <= t
            /\ \A k \in 2 .. Len(h) : h[k] # blank

\* C16's case: two frames, each with the blank among its top-k labels, have
\* appended a label each to a hypothesis.
C16_Witness ==
    /\ pc = "loop"
    /\ t = 2
    /\ beam_width >= 2
    /\ \A n \in 1 .. 2 : blank \in Range(TopK(log_probs[n], beam_width))
    /\ \E i \in 1 .. Len(beam) : Len(beam[i].hyp) = 3

\* C11: when cs holds the EOS index, the returned prefix score at the EOS
\* position is logsumexp(r_prev[xlen-1, 0], r_prev[xlen-1, 1]) of the
\* unextended prefix, and setting it changes neither the score of another
\* next label nor any returned forward state r, also when the forward
\* loop runs zero times.
C11_EosScoreChangesNothingElse ==
    (pc = "scored" /\ \E k \in 1 .. Len(cs) : cs[k] = eos) =>
        /\ \A i \in 1 .. Len(cs) :
               IF cs[i] = eos
               THEN log_psi[i] = r_prev[xlen].nb + r_prev[xlen].b
               ELSE log_psi[i] = psi_loop[i]
        /\ r = r_loop

\* The connecting term C13 gives the i-th next label at frame n: the blank
\* column of r_prev alone for the label that repeats the last label of a
\* non-empty prefix, both columns for every other label.
Connecting(i, n) ==
    IF Len(hyp) > 1 /\ cs[i] = hyp[Len(hyp)]
    THEN r_prev[n].b
    ELSE r_prev[n].nb + r_prev[n].b

\* The frames of the forward loop, numbered from 1: the code's
\* t >= max(ylen, 1) is the frame t + 1.
LoopFrames ==
    ((IF Len(hyp) - 1 > 1 THEN Len(hyp) - 1 ELSE 1) + 1) .. Len(log_probs)

\* C13: for every next label c of a call and every frame t >= max(ylen, 1),
\* r[t, 0] = logsumexp(r[t-1, 0], connecting[t-1]) + lp(t, c) and
\* r[t, 1] = logsumexp(r[t-1, 0], r[t-1, 1]) + lp(t, blank), where the
\* connecting term is r_prev[t-1, blank] alone when c is the last label of
\* a non-empty prefix and logsumexp(r_prev[t-1, non_blank],
\* r_prev[t-1, blank]) for every other label of the same call.
C13_ForwardRecurrences ==
    pc = "scored" =>
        \A i \in 1 .. Len(cs) :
            \A n \in LoopFrames :
                /\ r[i][n].nb =
                       (r[i][n - 1].nb + Connecting(i, n - 1)) * log_probs[n][cs[i]]
                /\ r[i][n].b =
                       (r[i][n - 1].nb + r[i][n - 1].b) * log_probs[n][blank]

\* C13's case: a call scored the label that repeats the last label of the
\* prefix together with another label, over at least one frame in which
\* the two connecting terms differ.
C13_Witness ==
    /\ pc = "scored"
    /\ Len(hyp) > 1
    /\ Len(cs) >= 2
    /\ \E i \in 1 .. Len(cs) : cs[i] = hyp[Len(hyp)]
    /\ \E n \in LoopFrames : r_prev[n - 1].nb > 0

=============================================================================
